---- MODULE Spec2Model ----
(***************************************************************************)
(* The in-memory resource stores of the FastAPI course snippets:           *)
(*   - the band store   (main.py, schemas.py):  bands_data                 *)
(*   - the book store   (notes/src/lesson-02/main.py, db.py): sample_books *)
(* The two stores belong to two applications, each started on its own:     *)
(* `app` names the one that is running.                                    *)
(* Every route handler is one action; the HTTP response of the last        *)
(* request served is kept in `response` together with the request it       *)
(* answers.  Strings on which the code computes (names, genres, q) are     *)
(* sequences of one-character strings; strings the code only stores        *)
(* (book titles, ...) are TLA+ strings.                                    *)
(***************************************************************************)
EXTENDS Integers, Sequences, FiniteSets, TLC

VARIABLES app, bands_data, sample_books, response, nops, tasks, running

vars == <<app, bands_data, sample_books, response, nops, tasks, running>>

\* Number of requests served in one behaviour of Spec.
MaxOps == 3

\* Number of concurrently issued requests in one behaviour of SpecLoop.
MaxTasks == 2

(***************************************************************************)
(* Python str methods used by the code.                                    *)
(***************************************************************************)
UpperCase == <<"A", "B", "C", "D", "E", "F", "G", "H", "I", "J", "K", "L", "M",
               "N", "O", "P", "Q", "R", "S", "T", "U", "V", "W", "X", "Y", "Z">>

LowerCase == <<"a", "b", "c", "d", "e", "f", "g", "h", "i", "j", "k", "l", "m",
               "n", "o", "p", "q", "r", "s", "t", "u", "v", "w", "x", "y", "z">>

IsUpper(c) == \E i \in DOMAIN UpperCase : UpperCase[i] = c

IsLower(c) == \E i \in DOMAIN LowerCase : LowerCase[i] = c

IsCased(c) == IsUpper(c) \/ IsLower(c)

char_lower(c) ==
    IF IsUpper(c)
    THEN LowerCase[CHOOSE i \in DOMAIN UpperCase : UpperCase[i] = c]
    ELSE c

char_upper(c) ==
    IF IsLower(c)
    THEN UpperCase[CHOOSE i \in DOMAIN LowerCase : LowerCase[i] = c]
    ELSE c

\* str.lower()
str_lower(s) == [i \in 1..Len(s) |-> char_lower(s[i])]

\* str.title(): a cased character is upper-cased when it follows an uncased
\* character (or starts the string) and lower-cased otherwise.
str_title(s) ==
    [i \in 1..Len(s) |->
        IF i > 1 /\ IsCased(s[i - 1]) THEN char_lower(s[i]) ELSE char_upper(s[i])]

\* `sub in s`
str_contains(sub, s) ==
    \E k \in 0..(Len(s) - Len(sub)) : \A i \in 1..Len(sub) : s[k + i] = sub[i]

(***************************************************************************)
(* Optional values (None or a value).                                      *)
(***************************************************************************)
None == [is_none |-> TRUE]

Some(v) == [is_none |-> FALSE, val |-> v]

(***************************************************************************)
(* schemas.py                                                              *)
(***************************************************************************)
\* GenreURLChoices: member name -> value.
GenreURLChoices ==
    [rock       |-> <<"r", "o", "c", "k">>,
     electronic |-> <<"e", "l", "e", "c", "t", "r", "o", "n", "i", "c">>,
     metal      |-> <<"m", "e", "t", "a", "l">>,
     hip_hop    |-> <<"h", "i", "p", "-", "h", "o", "p">>]

\* GenreChoices: member name -> value.
GenreChoices ==
    [rock       |-> <<"R", "o", "c", "k">>,
     electronic |-> <<"E", "l", "e", "c", "t", "r", "o", "n", "i", "c">>,
     metal      |-> <<"M", "e", "t", "a", "l">>,
     hip_hop    |-> <<"H", "i", "p", "-", "H", "o", "p">>]

GenreMembers == DOMAIN GenreChoices

GenreValues == {GenreChoices[m] : m \in GenreMembers}

\* A genre is held either as a plain str (the seed dictionaries, a request
\* body) or as a member of the GenreChoices enumeration (a validated model
\* and its model_dump()).
StrGenre(s) == [kind |-> "str", value |-> s]

EnumGenre(m) == [kind |-> "GenreChoices", name |-> m, value |-> GenreChoices[m]]

\* The field type `genre: GenreChoices`: a member is kept, a str is looked
\* up by value.
GenreValid(g) == g.kind = "GenreChoices" \/ g.value \in GenreValues

GenreCoerce(g) ==
    IF g.kind = "GenreChoices"
    THEN g
    ELSE EnumGenre(CHOOSE m \in GenreMembers : GenreChoices[m] = g.value)

\* Album: `release_date: date` parses an ISO str into a date.
Album(a) == [title |-> a.title,
             release_date |-> [kind |-> "date", value |-> a.release_date.value]]

AlbumList(albums) == [i \in 1..Len(albums) |-> Album(albums[i])]

\* Mutant of title_case_genre: str.capitalize() instead of str.title().
title_case_genre_capitalize(value) ==
    [i \in 1..Len(value) |->
        IF i = 1 THEN char_upper(value[i]) ELSE char_lower(value[i])]

\* BandCreate.title_case_genre, the mode='before' validator of `genre`.
title_case_genre(value) == str_title(value)

\* BandCreate(**body): the validator runs first, then the enum lookup.
BandCreateValid(body) == GenreValid(StrGenre(title_case_genre(body.genre)))

BandCreate(body) ==
    [name   |-> body.name,
     genre  |-> GenreCoerce(StrGenre(title_case_genre(body.genre))),
     albums |-> AlbumList(body.albums)]

\* BandWithID(**band) for a stored dictionary (albums defaults to []).
BandWithID(band) ==
    [id     |-> band.id,
     name   |-> band.name,
     genre  |-> GenreCoerce(band.genre),
     albums |-> IF "albums" \in DOMAIN band THEN AlbumList(band.albums) ELSE <<>>]

(***************************************************************************)
(* The band store: main.py                                                 *)
(***************************************************************************)
bands_data_seed ==
    << [id |-> 1, name |-> <<"T", "h", "e", " ", "K", "i", "n", "k", "s">>,
        genre |-> StrGenre(<<"R", "o", "c", "k">>)],
       [id |-> 2, name |-> <<"F", "X", " ", "T", "w", "i", "n">>,
        genre |-> StrGenre(<<"E", "l", "e", "c", "t", "r", "o", "n", "i", "c">>)],
       [id |-> 3,
        name |-> <<"B", "l", "a", "c", "k", " ", "S", "a", "b", "b", "a", "t", "h">>,
        genre |-> StrGenre(<<"M", "e", "t", "a", "l">>),
        albums |-> << [title |-> "Master of Reality",
                       release_date |-> [kind |-> "str", value |-> "1971-07-21"]] >>],
       [id |-> 4, name |-> <<"R", "u", "n", "-", "D", "M", "C">>,
        genre |-> StrGenre(<<"H", "i", "p", "-", "H", "o", "p">>)] >>

\* Python truthiness of `genre` (an enum member or None) and of `q` (a str or None).
GenreGiven(genre) == ~genre.is_none

QGiven(q) == ~q.is_none /\ Len(q.val) > 0

\* The comparison of line 28: band.genre.value.lower() == genre.value
genre_matches(band, genre) ==
    str_lower(band.genre.value) = GenreURLChoices[genre.val]

\* Mutant of q_matches: the two .lower() calls are missing.
q_matches_case_sensitive(band, q) == str_contains(q.val, band.name)

\* The comparison of lines 31-32: q.lower() in band.name.lower()
q_matches(band, q) == str_contains(str_lower(q.val), str_lower(band.name))

\* get_bands: the list the handler returns.
get_bands_list(bands, genre, q) ==
    LET bands_list == [i \in 1..Len(bands) |-> BandWithID(bands[i])]
        by_genre   == IF GenreGiven(genre)
                      THEN SelectSeq(bands_list, LAMBDA band : genre_matches(band, genre))
                      ELSE bands_list
    IN  IF QGiven(q)
        THEN SelectSeq(by_genre, LAMBDA band : q_matches(band, q))
        ELSE by_genre

\* Mutant of FirstWithId: when no record matches, the loop variable is still
\* bound to the last record and is used.
FirstWithId_fallthrough(store, id) ==
    IF \E i \in 1..Len(store) : store[i].id = id
    THEN CHOOSE i \in 1..Len(store) :
            /\ store[i].id = id
            /\ \A j \in 1..(i - 1) : store[j].id # id
    ELSE Len(store)

\* The scan `for record in store: if record.id == id`: the index of the first
\* record of a store whose id is `id`, 0 when there is none.
FirstWithId(store, id) ==
    IF \E i \in 1..Len(store) : store[i].id = id
    THEN CHOOSE i \in 1..Len(store) :
            /\ store[i].id = id
            /\ \A j \in 1..(i - 1) : store[j].id # id
    ELSE 0

\* get_bands_by_genre: str.lower() is called on every stored genre; a genre
\* that is not a str has no such method (AttributeError, a 500 response).
by_genre_fails(bands) == \E i \in 1..Len(bands) : bands[i].genre.kind # "str"

by_genre_list(bands, genre) ==
    SelectSeq(bands, LAMBDA band :
        str_lower(band.genre.value) = str_lower(GenreURLChoices[genre]))

BandNameInputs == { <<"K", "i", "s", "s">>, <<"A", "B", "B", "A">> }

GenreInputs == { <<"r", "o", "c", "k">>, <<"h", "i", "p", "-", "h", "o", "p">>,
                 <<"M", "E", "T", "A", "L">>, <<"j", "a", "z", "z">> }

\* Request bodies of POST /bands: one of the names comes with an album.
BandCreateInputs ==
    { [name   |-> name,
       genre  |-> genre,
       albums |-> IF name = <<"K", "i", "s", "s">>
                  THEN << [title |-> "Alive",
                           release_date |-> [kind |-> "str", value |-> "1975-09-10"]] >>
                  ELSE <<>>]
        : name \in BandNameInputs, genre \in GenreInputs }

QInputs == { None, Some(<<>>), Some(<<"k", "i">>), Some(<<"B", "B">>), Some(<<"a">>) }

GenreURLInputs == {None} \cup {Some(m) : m \in DOMAIN GenreURLChoices}

BandIdInputs == {1, 3, 5, 6, 9}

\* One more request is served by application `a`.
Served(a) == app = a /\ nops < MaxOps /\ nops' = nops + 1

LoopIdleVars == UNCHANGED <<app, tasks, running>>

\* GET /bands
get_bands(genre, q) ==
    /\ Served("main")
    /\ response' = [op |-> "get_bands", genre |-> genre, q |-> q, status |-> 200,
                    body |-> get_bands_list(bands_data, genre, q)]
    /\ UNCHANGED <<bands_data, sample_books>>
    /\ LoopIdleVars

\* POST /bands
create_band(body) ==
    /\ Served("main")
    /\ IF BandCreateValid(body)
       THEN LET band_data    == BandCreate(body)
                generated_id == bands_data[Len(bands_data)].id + 1
                new_band     == BandWithID([id     |-> generated_id,
                                            name   |-> band_data.name,
                                            genre  |-> band_data.genre,
                                            albums |-> band_data.albums])
            IN  /\ bands_data' = Append(bands_data, new_band)
                /\ response' = [op |-> "create_band", body_in |-> body,
                                status |-> 200, body |-> new_band]
       ELSE /\ bands_data' = bands_data
            /\ response' = [op |-> "create_band", body_in |-> body, status |-> 422]
    /\ UNCHANGED sample_books
    /\ LoopIdleVars

\* GET /bands/{band_id}
get_band_response(bands, band_id) ==
    LET i == FirstWithId(bands, band_id)
    IN  IF i = 0
        THEN [op |-> "get_band", id |-> band_id, status |-> 404]
        ELSE [op |-> "get_band", id |-> band_id, status |-> 200,
              body |-> BandWithID(bands[i])]

get_band(band_id) ==
    /\ Served("main")
    /\ response' = get_band_response(bands_data, band_id)
    /\ UNCHANGED <<bands_data, sample_books>>
    /\ LoopIdleVars

\* GET /bands/genre/{genre}
get_bands_by_genre(genre) ==
    /\ Served("main")
    /\ response' = IF by_genre_fails(bands_data)
                   THEN [op |-> "get_bands_by_genre", genre |-> genre, status |-> 500]
                   ELSE [op |-> "get_bands_by_genre", genre |-> genre, status |-> 200,
                         body |-> by_genre_list(bands_data, genre)]
    /\ UNCHANGED <<bands_data, sample_books>>
    /\ LoopIdleVars

(***************************************************************************)
(* The book store: db.py, notes/src/lesson-02/main.py                      *)
(* (names are written in ASCII)                                            *)
(***************************************************************************)
BookCreate(id, title, author, publisher, published_date, page_count, language) ==
    [id |-> id, title |-> title, author |-> author, publisher |-> publisher,
     published_date |-> published_date, page_count |-> page_count,
     language |-> language]

sample_books_seed ==
    << BookCreate(1, "The Hitchhiker's Guide to the Galaxy", "Douglas Adams",
                  "Pan Books", "1979-10-12", 224, "English"),
       BookCreate(2, "Pride and Prejudice", "Jane Austen",
                  "T. Egerton", "1813-01-28", 432, "English"),
       BookCreate(3, "Cien anos de soledad", "Gabriel Garcia Marquez",
                  "Editorial Sudamericana", "1967", 417, "Spanish"),
       BookCreate(4, "The Lord of the Rings", "J.R.R. Tolkien",
                  "George Allen & Unwin", "1954-07-29", 1216, "English"),
       BookCreate(5, "Le Petit Prince", "Antoine de Saint-Exupery",
                  "Reynal & Hitchcock", "1943-04-06", 96, "French"),
       BookCreate(6, "Foundation", "Isaac Asimov",
                  "Gnome Press", "1951", 255, "English"),
       BookCreate(7, "La Divina Commedia", "Dante Alighieri",
                  "Various (first edition self-published)", "1472", 640, "Italian") >>

\* BookUpdate: the fields of BookBase.
BookUpdate(title, author, publisher, page_count, language) ==
    [title |-> title, author |-> author, publisher |-> publisher,
     page_count |-> page_count, language |-> language]

\* list.remove(x): removes the first element equal to x.
list_remove(list, x) ==
    LET k == CHOOSE i \in 1..Len(list) :
                 /\ list[i] = x
                 /\ \A j \in 1..(i - 1) : list[j] # x
    IN  [i \in 1..(Len(list) - 1) |-> IF i < k THEN list[i] ELSE list[i + 1]]

\* Mutant of assign_fields: the assignment of `language` is missing.
assign_fields_partial(book, book_data) ==
    [book EXCEPT !.title      = book_data.title,
                 !.author     = book_data.author,
                 !.publisher  = book_data.publisher,
                 !.page_count = book_data.page_count]

\* The assignments of update_book, lines 41-45.
assign_fields(book, book_data) ==
    [book EXCEPT !.title      = book_data.title,
                 !.author     = book_data.author,
                 !.publisher  = book_data.publisher,
                 !.page_count = book_data.page_count,
                 !.language   = book_data.language]

BookIdInputs == {1, 3, 8, 9}

BookCreateInputs ==
    { BookCreate(id, "Dune", "Frank Herbert", "Chilton Books", "1965-08-01", 412, "English (US)")
        : id \in {1, 3, 8} }

BookUpdateInputs ==
    { BookUpdate("Emma", "J. Austen", "John Murray", 474, "Dutch"),
      BookUpdate("Solaris", "Stanislaw Lem", "MON", 204, "Polish") }

\* GET /books
get_all_books ==
    /\ Served("lesson-02")
    /\ response' = [op |-> "get_all_books", status |-> 200, body |-> sample_books]
    /\ UNCHANGED <<bands_data, sample_books>>
    /\ LoopIdleVars

\* POST /books
create_book(book) ==
    /\ Served("lesson-02")
    /\ sample_books' = Append(sample_books, book)
    /\ response' = [op |-> "create_book", book |-> book, status |-> 201, body |-> book]
    /\ UNCHANGED bands_data
    /\ LoopIdleVars

\* GET /book/{book_id}
get_book_response(books, book_id) ==
    LET i == FirstWithId(books, book_id)
    IN  IF i = 0
        THEN [op |-> "get_book", id |-> book_id, status |-> 404]
        ELSE [op |-> "get_book", id |-> book_id, status |-> 200, body |-> books[i]]

get_book(book_id) ==
    /\ Served("lesson-02")
    /\ response' = get_book_response(sample_books, book_id)
    /\ UNCHANGED <<bands_data, sample_books>>
    /\ LoopIdleVars

\* PATCH /book/{book_id}
update_book(book_id, book_data) ==
    /\ Served("lesson-02")
    /\ LET i == FirstWithId(sample_books, book_id)
       IN  IF i = 0
           THEN /\ sample_books' = sample_books
                /\ response' = [op |-> "update_book", id |-> book_id,
                                book_data |-> book_data, status |-> 404]
           ELSE LET book == assign_fields(sample_books[i], book_data)
                IN  /\ sample_books' = [sample_books EXCEPT ![i] = book]
                    /\ response' = [op |-> "update_book", id |-> book_id,
                                    book_data |-> book_data, status |-> 200,
                                    body |-> book]
    /\ UNCHANGED bands_data
    /\ LoopIdleVars

\* DELETE /book/{book_id}
delete_book(book_id) ==
    /\ Served("lesson-02")
    /\ LET i == FirstWithId(sample_books, book_id)
       IN  IF i = 0
           THEN /\ sample_books' = sample_books
                /\ response' = [op |-> "delete_book", id |-> book_id, status |-> 404]
           ELSE /\ sample_books' = list_remove(sample_books, sample_books[i])
                /\ response' = [op |-> "delete_book", id |-> book_id, status |-> 204]
    /\ UNCHANGED bands_data
    /\ LoopIdleVars

(***************************************************************************)
(* Requests served one after the other.                                    *)
(***************************************************************************)
Init ==
    /\ app \in {"main", "lesson-02"}
    /\ bands_data = bands_data_seed
    /\ sample_books = sample_books_seed
    /\ response = [op |-> "none", status |-> 0]
    /\ nops = 0
    /\ tasks = <<>>
    /\ running = 0

Next ==
    \/ \E genre \in GenreURLInputs, q \in QInputs : get_bands(genre, q)
    \/ \E body \in BandCreateInputs : create_band(body)
    \/ \E band_id \in BandIdInputs : get_band(band_id)
    \/ \E genre \in DOMAIN GenreURLChoices : get_bands_by_genre(genre)
    \/ get_all_books
    \/ \E book \in BookCreateInputs : create_book(book)
    \/ \E book_id \in BookIdInputs : get_book(book_id)
    \/ \E book_id \in BookIdInputs, book_data \in BookUpdateInputs :
          update_book(book_id, book_data)
    \/ \E book_id \in BookIdInputs : delete_book(book_id)

Spec == Init /\ [][Next]_vars

(***************************************************************************)
(* Concurrently issued requests against the book store.  Every handler is  *)
(* a coroutine (`async def`) run by one event loop; the loop takes another *)
(* task only when the running coroutine awaits or returns, and no handler  *)
(* contains an await.  A handler is executed statement by statement.       *)
(***************************************************************************)
BookFields == <<"title", "author", "publisher", "page_count", "language">>

LoopRequests ==
    { [op |-> "get_all_books"],
      [op |-> "get_book", id |-> 1],
      [op |-> "get_book", id |-> 3],
      [op |-> "delete_book", id |-> 1],
      [op |-> "create_book",
       book |-> BookCreate(1, "Dune", "Frank Herbert", "Chilton Books",
                           "1965-08-01", 412, "English (US)")] }
    \cup { [op |-> "update_book", id |-> 1, book_data |-> d] : d \in BookUpdateInputs }
    \cup { [op |-> "update_book", id |-> 3, book_data |-> d] : d \in BookUpdateInputs }

\* Mutant of LoopIdle: handlers declared `def` run in worker threads, so a
\* handler starts whether or not another one is being executed.
LoopIdle_threads == TRUE

\* The event loop is free to take the next task: no coroutine holds it.
LoopIdle == running = 0

StoreIdleVars == UNCHANGED <<app, bands_data, response, nops>>

\* The task the loop is executing is at `pc` in handler `op`.
At(op, pc) == running # 0 /\ tasks[running].req.op = op /\ tasks[running].pc = pc

Scanning == running # 0 /\ tasks[running].pc = "scan"
              /\ tasks[running].req.op \in {"get_book", "update_book", "delete_book"}

Finish(status, body) ==
    /\ tasks' = [tasks EXCEPT ![running] =
                    [@ EXCEPT !.pc = "done", !.status = status, !.body = body]]
    /\ running' = 0

\* A request arrives and becomes a task of the loop.
Arrive(req) ==
    /\ Len(tasks) < MaxTasks
    /\ tasks' = Append(tasks, [req |-> req, pc |-> "pending", i |-> 1, f |-> 1,
                               status |-> 0, body |-> <<>>])
    /\ UNCHANGED <<sample_books, running>>
    /\ StoreIdleVars

\* The loop takes a pending task and enters its handler.
Start(t) ==
    /\ LoopIdle
    /\ tasks[t].pc = "pending"
    /\ running' = t
    /\ tasks' = [tasks EXCEPT ![t].pc =
                    IF tasks[t].req.op \in {"get_all_books", "create_book"}
                    THEN "body" ELSE "scan"]
    /\ UNCHANGED sample_books
    /\ StoreIdleVars

\* get_all_books, line 15
run_get_all_books ==
    /\ At("get_all_books", "body")
    /\ Finish(200, sample_books)
    /\ UNCHANGED sample_books
    /\ StoreIdleVars

\* create_book, lines 21-23
run_create_book ==
    /\ At("create_book", "body")
    /\ sample_books' = Append(sample_books, tasks[running].req.book)
    /\ Finish(201, tasks[running].req.book)
    /\ StoreIdleVars

\* One iteration of `for book in sample_books: if book.id == book_id`, or the
\* raise after the loop (lines 29-30 and 33, 39-40 and 49, 55-56 and 59).
run_scan ==
    /\ Scanning
    /\ LET t == tasks[running]
       IN  IF t.i > Len(sample_books)
           THEN Finish(404, <<>>)
           ELSE /\ tasks' = IF sample_books[t.i].id = t.req.id
                            THEN [tasks EXCEPT ![running].pc = "found"]
                            ELSE [tasks EXCEPT ![running].i = t.i + 1]
                /\ UNCHANGED running
    /\ UNCHANGED sample_books
    /\ StoreIdleVars

\* get_book, line 31
run_get_book_return ==
    /\ At("get_book", "found")
    /\ Finish(200, sample_books[tasks[running].i])
    /\ UNCHANGED sample_books
    /\ StoreIdleVars

\* update_book, one of the assignments of lines 41-45
run_update_book_assign ==
    /\ At("update_book", "found")
    /\ LET t     == tasks[running]
           field == BookFields[t.f]
       IN  /\ sample_books' = [sample_books EXCEPT ![t.i] =
                                  [fld \in DOMAIN @ |->
                                      IF fld = field THEN t.req.book_data[fld] ELSE @[fld]]]
           /\ tasks' = IF t.f = Len(BookFields)
                       THEN [tasks EXCEPT ![running].pc = "return"]
                       ELSE [tasks EXCEPT ![running].f = t.f + 1]
    /\ UNCHANGED running
    /\ StoreIdleVars

\* update_book, line 47
run_update_book_return ==
    /\ At("update_book", "return")
    /\ Finish(200, sample_books[tasks[running].i])
    /\ UNCHANGED sample_books
    /\ StoreIdleVars

\* delete_book, lines 57-58
run_delete_book_remove ==
    /\ At("delete_book", "found")
    /\ sample_books' = list_remove(sample_books, sample_books[tasks[running].i])
    /\ Finish(204, <<>>)
    /\ StoreIdleVars

InitLoop ==
    /\ app = "lesson-02"
    /\ bands_data = bands_data_seed
    /\ sample_books = sample_books_seed
    /\ response = [op |-> "none", status |-> 0]
    /\ nops = 0
    /\ tasks = <<>>
    /\ running = 0

NextLoop ==
    \/ \E req \in LoopRequests : Arrive(req)
    \/ \E t \in 1..Len(tasks) : Start(t)
    \/ run_get_all_books
    \/ run_create_book
    \/ run_scan
    \/ run_get_book_return
    \/ run_update_book_assign
    \/ run_update_book_return
    \/ run_delete_book_remove

SpecLoop == InitLoop /\ [][NextLoop]_vars

(***************************************************************************)
(* Properties of the stores.                                               *)
(***************************************************************************)
Ids(store) == {store[i].id : i \in 1..Len(store)}

UniqueIds(store) ==
    \A i, j \in 1..Len(store) : i # j => store[i].id # store[j].id

MaxId(store) == CHOOSE m \in Ids(store) : \A n \in Ids(store) : n <= m

\* The id the data model prescribes for a new record.
FreshId(store) == IF Len(store) = 0 THEN 1 ELSE MaxId(store) + 1

\* The step serves a request whose response is of operation `op`.
Serves(op) == nops' = nops + 1 /\ response'.op = op

\* C1: no two records of a store share an id, in the band store and in the
\* book store, in every reachable state.
C1_UniqueIds == UniqueIds(bands_data) /\ UniqueIds(sample_books)

\* C2: a successful create returns a record whose id is max(existing ids) + 1
\* (1 for an empty store), hence greater than every id present before, and
\* the store is the old store with that record appended.
C2_CreateFreshId ==
    [][ /\ (Serves("create_band") /\ response'.status = 200) =>
              /\ response'.body.id = FreshId(bands_data)
              /\ \A id \in Ids(bands_data) : response'.body.id > id
              /\ bands_data' = Append(bands_data, response'.body)
        /\ Serves("create_book") =>
              /\ response'.body.id = FreshId(sample_books)
              /\ \A id \in Ids(sample_books) : response'.body.id > id
              /\ sample_books' = Append(sample_books, response'.body) ]_vars

\* C3: for every record r of a store, get_by_id(r.id) answers with r itself.
C3_GetReturnsRecord ==
    /\ \A i \in 1..Len(sample_books) :
          LET r == get_book_response(sample_books, sample_books[i].id)
          IN  r.status = 200 /\ r.body = sample_books[i]
    /\ \A i \in 1..Len(bands_data) :
          LET r == get_band_response(bands_data, bands_data[i].id)
          IN  r.status = 200 /\ r.body = BandWithID(bands_data[i])

\* C4: a get_by_id(id) or a second delete_by_id(id) that immediately follows a
\* successful delete_by_id(id) signals NotFound.
C4_DeleteThenNotFound ==
    [][ ( /\ response.op = "delete_book"
          /\ response.status = 204
          /\ (Serves("get_book") \/ Serves("delete_book"))
          /\ response'.id = response.id )
        => response'.status = 404 ]_vars

\* C5: get_by_id, update_by_id and delete_by_id of an id that is not in the
\* store signal NotFound (404) and leave the store as it was.
C5_AbsentIdNotFound ==
    [][ /\ ( /\ Serves("get_book") \/ Serves("update_book") \/ Serves("delete_book")
             /\ response'.id \notin Ids(sample_books) )
           => (response'.status = 404 /\ sample_books' = sample_books)
        /\ (Serves("get_band") /\ response'.id \notin Ids(bands_data))
           => (response'.status = 404 /\ bands_data' = bands_data) ]_vars

\* C5 witness: NotFound was signalled for an id that is in no record, on a
\* store that requests have already changed.
C5_Witness ==
    /\ response.op \in {"update_book", "delete_book"}
    /\ response.status = 404
    /\ response.id \notin Ids(sample_books)
    /\ sample_books # sample_books_seed

\* C6: a successful update_by_id(id, input) gives the first record with that
\* id the title, author, publisher, page_count and language of the input,
\* keeps its id and published_date, and keeps every other record, the size
\* and the order of the store; the updated record is returned.
C6_UpdateFrame ==
    [][ (Serves("update_book") /\ response'.status = 200) =>
          \E k \in 1..Len(sample_books) :
            /\ sample_books[k].id = response'.id
            /\ \A j \in 1..(k - 1) : sample_books[j].id # response'.id
            /\ Len(sample_books') = Len(sample_books)
            /\ \A j \in 1..Len(sample_books) : j # k => sample_books'[j] = sample_books[j]
            /\ sample_books'[k].title = response'.book_data.title
            /\ sample_books'[k].author = response'.book_data.author
            /\ sample_books'[k].publisher = response'.book_data.publisher
            /\ sample_books'[k].page_count = response'.book_data.page_count
            /\ sample_books'[k].language = response'.book_data.language
            /\ sample_books'[k].id = sample_books[k].id
            /\ sample_books'[k].published_date = sample_books[k].published_date
            /\ DOMAIN sample_books'[k] = DOMAIN sample_books[k]
            /\ response'.body = sample_books'[k] ]_vars

\* C6 witness: an update succeeded on an id that two records carry, and every
\* mutable field of the first of them now differs from the other's.
C6_Witness ==
    /\ response.op = "update_book"
    /\ response.status = 200
    /\ \E i, j \in 1..Len(sample_books) :
          /\ i < j
          /\ sample_books[i].id = response.id
          /\ sample_books[j].id = response.id
          /\ sample_books[i].language # sample_books[j].language

\* Two characters that are the same letter up to case.
SameLetter(a, b) ==
    \/ a = b
    \/ \E i \in DOMAIN UpperCase : {a, b} = {UpperCase[i], LowerCase[i]}

ContainsIgnoringCase(sub, s) ==
    \E k \in 0..(Len(s) - Len(sub)) :
        \A i \in 1..Len(sub) : SameLetter(sub[i], s[k + i])

\* The stored bands, validated, that meet every supplied criterion.
Filtered(bands, genre, q) ==
    SelectSeq([i \in 1..Len(bands) |-> BandWithID(bands[i])],
              LAMBDA band :
                  /\ genre.is_none \/ band.genre.name = genre.val
                  /\ q.is_none \/ ContainsIgnoringCase(q.val, band.name))

CanonicalGenres(raw) ==
    {v \in GenreValues :
        Len(v) = Len(raw) /\ \A i \in 1..Len(v) : SameLetter(v[i], raw[i])}

\* C8: create_band stores a genre that is an allowed one up to case in its
\* canonical form, and answers any other genre with a validation error (422)
\* leaving the store unchanged.
C8_GenreNormalised ==
    [][ Serves("create_band") =>
          LET canon == CanonicalGenres(response'.body_in.genre)
          IN  IF canon # {}
              THEN /\ response'.status = 200
                   /\ Len(bands_data') = Len(bands_data) + 1
                   /\ bands_data'[Len(bands_data')].genre.value \in canon
                   /\ response'.body.genre.value \in canon
              ELSE /\ response'.status = 422
                   /\ bands_data' = bands_data ]_vars

\* C8 witness: "jazz" has just been refused while a band created with
\* "rock" is stored as "Rock".
C8_Witness ==
    /\ response.op = "create_band"
    /\ response.status = 422
    /\ response.body_in.genre = <<"j", "a", "z", "z">>
    /\ \E i \in 1..Len(bands_data) :
          bands_data[i].id > 4 /\ bands_data[i].genre.value = <<"R", "o", "c", "k">>

\* C10: every stored band's genre is a plain str like the seed records', and
\* get_bands_by_genre(g) succeeds with the bands (by id) of get_bands(genre=g).
C10_GenreByPathAgrees ==
    /\ \A i \in 1..Len(bands_data) : bands_data[i].genre.kind = "str"
    /\ response.op = "get_bands_by_genre" =>
          /\ response.status = 200
          /\ [i \in 1..Len(response.body) |-> response.body[i].id]
               = LET l == get_bands_list(bands_data, Some(response.genre), None)
                 IN  [i \in 1..Len(l) |-> l[i].id]

\* The versions of a book's mutable fields that some request or the seed wrote
\* as a whole.
WholeVersions ==
    BookUpdateInputs
    \cup { [fld \in DOMAIN BookUpdate("", "", "", 0, "") |-> b[fld]]
             : b \in {sample_books_seed[i] : i \in 1..Len(sample_books_seed)}
                     \cup {r.book : r \in {q \in LoopRequests : q.op = "create_book"}} }

\* A record none of whose mutable fields comes from another version than the rest.
Whole(book) == [fld \in DOMAIN BookUpdate("", "", "", 0, "") |-> book[fld]] \in WholeVersions

InHandler(t) == tasks[t].pc \notin {"pending", "done"}

\* C9: at most one handler is between its entry and its return at any time
\* (handlers exclude each other), the store holds no partly updated record
\* whenever a handler is entered, and no response carries a partly updated
\* record.
C9_HandlersAtomic ==
    /\ Cardinality({t \in 1..Len(tasks) : InHandler(t)}) <= 1
    /\ \A t \in 1..Len(tasks) : InHandler(t) => running = t
    /\ \A t \in 1..Len(tasks) :
          (InHandler(t) /\ tasks[t].pc \in {"body", "scan"}) =>
              \A i \in 1..Len(sample_books) : Whole(sample_books[i])
    /\ \A t \in 1..Len(tasks) :
          (tasks[t].pc = "done" /\ tasks[t].status = 200) =>
              IF tasks[t].req.op = "get_all_books"
              THEN \A i \in 1..Len(tasks[t].body) : Whole(tasks[t].body[i])
              ELSE Whole(tasks[t].body)

\* C9 witness: an update is in the middle of its assignments (the record is
\* partly replaced) while a read of the same id is waiting to run.
C9_Witness ==
    /\ running # 0
    /\ tasks[running].req.op = "update_book"
    /\ tasks[running].pc = "found"
    /\ ~Whole(sample_books[tasks[running].i])
    /\ \E t \in 1..Len(tasks) :
          /\ tasks[t].pc = "pending"
          /\ tasks[t].req.op = "get_book"
          /\ tasks[t].req.id = tasks[running].req.id

====
